---------------------------- MODULE Spec2Model ----------------------------
(***************************************************************************)
(* Model of csvdump (christian-moerz/csvdump): the table definition        *)
(* builder of lib_oradb and the producer / consumer pipeline that main()   *)
(* runs over the shared row queue.                                         *)
(*                                                                         *)
(* Column names are modelled by their rank in the byte-wise string order   *)
(* that BTreeSet<String> / BTreeMap<String, _> use: name 1 < name 2 < ...  *)
(* A BTreeSet is the strictly ascending sequence its iterator yields; a    *)
(* BTreeMap is the sequence of its entries, ascending by key.              *)
(*                                                                         *)
(* Environment assumptions of Spec: the database may fail any call (the    *)
(* catalog query, the SELECT, any row fetch or decode) and creating the    *)
(* output file may fail; RwLock acquisition does not fail (a lock is only  *)
(* poisoned by a panic inside a write guard, and no guarded region of the  *)
(* program panics) and the csv writer accepts every record.                *)
(* SpecFault is the same program where any lock acquisition may fail: the  *)
(* consumer's, the producer's and main's read of the counter.  SpecLib is  *)
(* a client of the library that runs both retrieval variants on one result *)
(* set, over catalogs of every native type.                                *)
(* SpecAgain is the program with a client that may call execute again on   *)
(* the same ThreadedTableData.                                             *)
(***************************************************************************)
EXTENDS Integers, Sequences, FiniteSets, TLC

(***************************************************************************)
(* Bounds of the model.                                                    *)
(***************************************************************************)
MaxCatalog == 2
MaxRows == 2
\* calls of execute on one ThreadedTableData
MaxExecute == 2

\* the column names that occur, by rank
Names == {1, 2, 3}

Range(s) == {s[i] : i \in 1..Len(s)}

SeqsUpTo(S, n) == UNION {[1..k -> S] : k \in 0..n}

(***************************************************************************)
(* Option<T>: None is the empty sequence, Some(x) the one-element one.     *)
(***************************************************************************)
None == <<>>
Some(x) == <<x>>
UnwrapOr(o, d) == IF o = None THEN d ELSE o[1]

(***************************************************************************)
(* crate::Error and crate::Result.                                         *)
(***************************************************************************)
NoError == [kind |-> "none", column |-> 0, data_type |-> ""]
DatabaseError == [kind |-> "DatabaseError", column |-> 0, data_type |-> ""]
UnknownDataType(x) == [kind |-> "UnknownDataType", column |-> 0, data_type |-> x]
UnknownColumn(c) == [kind |-> "UnknownColumn", column |-> c, data_type |-> ""]

Ok(v) == [ok |-> TRUE, value |-> v, err |-> NoError]
Err(e) == [ok |-> FALSE, value |-> <<>>, err |-> e]

(***************************************************************************)
(* std::collections::BTreeSet<String>                                      *)
(***************************************************************************)
BTreeSetContains(s, x) == \E i \in 1..Len(s) : s[i] = x

BTreeSetInsert(s, x) ==
    IF BTreeSetContains(s, x) THEN s
    ELSE SelectSeq(s, LAMBDA y : y < x) \o <<x>> \o SelectSeq(s, LAMBDA y : y > x)

RECURSIVE BTreeSetCollect(_)
BTreeSetCollect(items) ==
    IF items = <<>> THEN <<>>
    ELSE BTreeSetInsert(BTreeSetCollect(SubSeq(items, 1, Len(items) - 1)),
                        items[Len(items)])

\* a.difference(&b): the elements of a, in a's order, that b does not hold
BTreeSetDifference(a, b) == SelectSeq(a, LAMBDA y : ~BTreeSetContains(b, y))

(***************************************************************************)
(* std::collections::BTreeMap<String, ColumnDefinition>                    *)
(***************************************************************************)
\* faulty variant: a Vec of entries, a new key appended in arrival order
BTreeMapInsertAppend(m, k, v) ==
    IF \E i \in 1..Len(m) : m[i].key = k
    THEN [i \in 1..Len(m) |-> IF m[i].key = k THEN [key |-> k, value |-> v] ELSE m[i]]
    ELSE Append(m, [key |-> k, value |-> v])

BTreeMapInsert(m, k, v) ==
    IF \E i \in 1..Len(m) : m[i].key = k
    THEN [i \in 1..Len(m) |-> IF m[i].key = k THEN [key |-> k, value |-> v] ELSE m[i]]
    ELSE SelectSeq(m, LAMBDA e : e.key < k) \o <<[key |-> k, value |-> v]>>
             \o SelectSeq(m, LAMBDA e : e.key > k)

\* faulty variant: an entry whose key is already present is discarded
RECURSIVE BTreeMapCollectFirstWins(_)
BTreeMapCollectFirstWins(pairs) ==
    IF pairs = <<>> THEN <<>>
    ELSE LET rest == BTreeMapCollectFirstWins(SubSeq(pairs, 1, Len(pairs) - 1))
             last == pairs[Len(pairs)]
         IN  IF \E i \in 1..Len(rest) : rest[i].key = last.key THEN rest
             ELSE BTreeMapInsert(rest, last.key, last.value)

RECURSIVE BTreeMapCollect(_)
BTreeMapCollect(pairs) ==
    IF pairs = <<>> THEN <<>>
    ELSE BTreeMapInsert(BTreeMapCollect(SubSeq(pairs, 1, Len(pairs) - 1)),
                        pairs[Len(pairs)].key, pairs[Len(pairs)].value)

BTreeMapKeys(m) == [i \in 1..Len(m) |-> m[i].key]
BTreeMapValues(m) == [i \in 1..Len(m) |-> m[i].value]

(***************************************************************************)
(* definition::DataType and definition::ColumnDefinition                   *)
(***************************************************************************)
DataTypeNumber(l, p) == [tag |-> "Number", length |-> l, precision |-> p]
DataTypeVarChar(l) == [tag |-> "VarChar", length |-> l, precision |-> 0]
DataTypeDate == [tag |-> "Date", length |-> 0, precision |-> 0]
DataTypeDateTime == [tag |-> "DateTime", length |-> 0, precision |-> 0]
DataTypeBoolean == [tag |-> "Boolean", length |-> 0, precision |-> 0]
DataTypeCLob == [tag |-> "CLob", length |-> 0, precision |-> 0]

ColumnDefinition(n, nl, dt) == [column_name |-> n, nullable |-> nl, data_type |-> dt]

(***************************************************************************)
(* The rows ALL_TAB_COLUMNS can hold for the table, in the shape           *)
(* query_column_data reads them.  A name may occur more than once (the     *)
(* same table name under several owners).                                  *)
(***************************************************************************)
NativeTypes ==
    { [DATA_TYPE |-> "NUMBER", DATA_LENGTH |-> Some(22), DATA_PRECISION |-> None],
      [DATA_TYPE |-> "NUMBER", DATA_LENGTH |-> Some(22), DATA_PRECISION |-> Some(2)],
      [DATA_TYPE |-> "VARCHAR2", DATA_LENGTH |-> Some(30), DATA_PRECISION |-> None],
      [DATA_TYPE |-> "BLOB", DATA_LENGTH |-> Some(4000), DATA_PRECISION |-> None] }

CatalogRows ==
    { [COLUMN_NAME |-> n, NULLABLE |-> "Y", DATA_TYPE |-> t.DATA_TYPE,
       DATA_LENGTH |-> t.DATA_LENGTH, DATA_PRECISION |-> t.DATA_PRECISION]
        : n \in Names, t \in NativeTypes }

Catalogs == SeqsUpTo(CatalogRows, MaxCatalog)

(***************************************************************************)
(* ColumnDataProvider::query_column_data for oracle::Connection.           *)
(* failAt is the environment's choice of where the driver fails: 0 the     *)
(* query itself, i the fetch or a get of row i (Len + 1: the fetch that    *)
(* follows the last row), anything larger never.                           *)
(***************************************************************************)
\* faulty variant: an unrecognized type name falls back to a character column
MapNativeTypeDefaults(data_type, data_length, data_precision) ==
    CASE data_type = "NUMBER" ->
             Ok(DataTypeNumber(UnwrapOr(data_length, 0), UnwrapOr(data_precision, 0)))
      [] data_type = "VARCHAR2" -> Ok(DataTypeVarChar(UnwrapOr(data_length, 0)))
      [] data_type = "DATE" -> Ok(DataTypeDate)
      [] data_type = "TIMESTAMP(6)" -> Ok(DataTypeDateTime)
      [] data_type = "BOOL" -> Ok(DataTypeBoolean)
      [] data_type = "CLOB" -> Ok(DataTypeCLob)
      [] OTHER -> Ok(DataTypeVarChar(UnwrapOr(data_length, 0)))

MapNativeType(data_type, data_length, data_precision) ==
    CASE data_type = "NUMBER" ->
             Ok(DataTypeNumber(UnwrapOr(data_length, 0), UnwrapOr(data_precision, 0)))
      [] data_type = "VARCHAR2" -> Ok(DataTypeVarChar(UnwrapOr(data_length, 0)))
      [] data_type = "DATE" -> Ok(DataTypeDate)
      [] data_type = "TIMESTAMP(6)" -> Ok(DataTypeDateTime)
      [] data_type = "BOOL" -> Ok(DataTypeBoolean)
      [] data_type = "CLOB" -> Ok(DataTypeCLob)
      [] OTHER -> Err(UnknownDataType(data_type))

\* faulty variant: a column of unrecognized native type is left out
RECURSIVE QueryColumnRowsSkipsUnknown(_, _, _, _)
QueryColumnRowsSkipsUnknown(rows, failAt, i, result_vec) ==
    IF failAt = i THEN Err(DatabaseError)
    ELSE IF i > Len(rows) THEN Ok(result_vec)
    ELSE LET row == rows[i]
             data_type == MapNativeType(row.DATA_TYPE, row.DATA_LENGTH,
                                        row.DATA_PRECISION)
         IN  IF ~data_type.ok
             THEN QueryColumnRowsSkipsUnknown(rows, failAt, i + 1, result_vec)
             ELSE QueryColumnRowsSkipsUnknown(rows, failAt, i + 1,
                      Append(result_vec,
                             ColumnDefinition(row.COLUMN_NAME, row.NULLABLE = "Y",
                                              data_type.value)))

RECURSIVE QueryColumnRows(_, _, _, _)
QueryColumnRows(rows, failAt, i, result_vec) ==
    IF failAt = i THEN Err(DatabaseError)
    ELSE IF i > Len(rows) THEN Ok(result_vec)
    ELSE LET row == rows[i]
             data_type == MapNativeType(row.DATA_TYPE, row.DATA_LENGTH,
                                        row.DATA_PRECISION)
         IN  IF ~data_type.ok THEN Err(data_type.err)
             ELSE QueryColumnRows(rows, failAt, i + 1,
                      Append(result_vec,
                             ColumnDefinition(row.COLUMN_NAME, row.NULLABLE = "Y",
                                              data_type.value)))

query_column_data(rows, failAt) ==
    IF failAt = 0 THEN Err(DatabaseError)
    ELSE QueryColumnRows(rows, failAt, 1, <<>>)

(***************************************************************************)
(* TableSelectionBuilder                                                   *)
(***************************************************************************)
TableSelectionBuilderNew(table_name) ==
    [table_name |-> table_name, column_names |-> <<>>]

TableSelectionBuilderWith(self, column_name) ==
    [self EXCEPT !.column_names = BTreeSetInsert(@, column_name)]

\* faulty variant: next_back() instead of next()
LastUnknown(unknown_columns) == unknown_columns[Len(unknown_columns)]

\* unknown_columns.iter().next().unwrap()
FirstUnknown(unknown_columns) == unknown_columns[1]

\* faulty variant: the filter on the requested names is missing
FilterColumnsAll(columns, column_names) ==
    BTreeMapCollect([i \in 1..Len(columns) |->
                        [key |-> columns[i].column_name, value |-> columns[i]]])

\* columns.into_iter().filter(..).map(..).collect()

FilterColumns(columns, column_names) ==
    BTreeMapCollect(
        [i \in 1..Len(SelectSeq(columns,
                        LAMBDA col : BTreeSetContains(column_names, col.column_name)))
           |-> LET col == SelectSeq(columns,
                             LAMBDA c : BTreeSetContains(column_names, c.column_name))[i]
               IN  [key |-> col.column_name, value |-> col]])

build(self, rows, failAt) ==
    LET queried == query_column_data(rows, failAt)
    IN  IF ~queried.ok THEN Err(queried.err)
        ELSE LET columns == queried.value
                 known_columns ==
                     BTreeSetCollect([i \in 1..Len(columns) |-> columns[i].column_name])
                 queried_names == BTreeSetCollect(self.column_names)
                 unknown_columns == BTreeSetDifference(queried_names, known_columns)
             IN  IF unknown_columns # <<>>
                 THEN Err(UnknownColumn(FirstUnknown(unknown_columns)))
                 ELSE Ok([table_name |-> self.table_name,
                          columns |-> FilterColumns(columns, self.column_names)])

\* TableDefinition::header
header(table_def) == BTreeMapKeys(table_def.columns)

(***************************************************************************)
(* The table's rows as the driver returns them: a native row gives, for    *)
(* each column name, a field that is SQL NULL or holds a value.  The value *)
(* of row r, column c identifies the cell, so that a misplaced value shows.*)
(***************************************************************************)
NativeField(r, c) ==
    IF (r + c) % 3 = 0 THEN [null |-> TRUE, v |-> 0]
    ELSE [null |-> FALSE, v |-> 10 * r + c]

NativeRows(n) == [r \in 1..n |-> [c \in Names |-> NativeField(r, c)]]

ResultSets == {NativeRows(n) : n \in 0..MaxRows}

\* row.get::<_, Option<T>>(name)
RowGet(row, column_name) ==
    IF row[column_name].null THEN None ELSE Some(row[column_name].v)

(***************************************************************************)
(* definition::ColumnValue, RowIndicator, DataRow                          *)
(***************************************************************************)
ColumnValue(variant, v) == [variant |-> variant, v |-> v]

MoreToCome(column_values) == [tag |-> "MoreToCome", values |-> column_values]
EndOfData == [tag |-> "EndOfData", values |-> <<>>]

DataRow(column_defs, column_values) ==
    [column_defs |-> column_defs, column_values |-> column_values]

\* the statement both retrieval variants build: the column list of
\* SELECT <list> FROM <table>, which the server rejects when it is empty
SelectColumns(column_names) ==
    [i \in 1..Len(column_names) |-> BTreeMapValues(column_names)[i].column_name]

SelectAccepted(column_str) == column_str # <<>>

(***************************************************************************)
(* ThreadedDataRowProvider::query_data_threaded: the decoding of one row.  *)
(***************************************************************************)
\* faulty variant: a NULL number is decoded as the number 0
DecodeFieldThreadedNullZero(col_item, row) ==
    LET data == RowGet(row, col_item.column_name)
        tag == col_item.data_type.tag
    IN  CASE tag \in {"VarChar", "CLob"} ->
                 IF data = None THEN None ELSE Some(ColumnValue("Varchar", data[1]))
          [] tag = "Number" ->
                 IF col_item.data_type.precision > 0
                 THEN Some(ColumnValue("Float", UnwrapOr(data, 0)))
                 ELSE Some(ColumnValue("Number", UnwrapOr(data, 0)))
          [] tag = "Boolean" ->
                 IF data = None THEN None ELSE Some(ColumnValue("Boolean", data[1]))
          [] tag = "Date" ->
                 IF data = None THEN None ELSE Some(ColumnValue("Date", data[1]))
          [] tag = "DateTime" ->
                 IF data = None THEN None ELSE Some(ColumnValue("DateTime", data[1]))

DecodeFieldThreaded(col_item, row) ==
    LET data == RowGet(row, col_item.column_name)
        tag == col_item.data_type.tag
    IN  CASE tag \in {"VarChar", "CLob"} ->
                 IF data = None THEN None ELSE Some(ColumnValue("Varchar", data[1]))
          [] tag = "Number" ->
                 IF col_item.data_type.precision > 0
                 THEN IF data = None THEN None ELSE Some(ColumnValue("Float", data[1]))
                 ELSE IF data = None THEN None ELSE Some(ColumnValue("Number", data[1]))
          [] tag = "Boolean" ->
                 IF data = None THEN None ELSE Some(ColumnValue("Boolean", data[1]))
          [] tag = "Date" ->
                 IF data = None THEN None ELSE Some(ColumnValue("Date", data[1]))
          [] tag = "DateTime" ->
                 IF data = None THEN None ELSE Some(ColumnValue("DateTime", data[1]))

\* faulty variant: the values are collected in descending column order
DecodeRowThreadedReversed(column_names, row) ==
    [i \in 1..Len(column_names) |->
        DecodeFieldThreaded(BTreeMapValues(column_names)[Len(column_names) + 1 - i], row)]

DecodeRowThreaded(column_names, row) ==
    [i \in 1..Len(column_names) |->
        DecodeFieldThreaded(BTreeMapValues(column_names)[i], row)]

(***************************************************************************)
(* DataRowProvider::query_data, the bulk variant.  failAt as above: 0 the  *)
(* SELECT fails, i the fetch or the decoding of row i fails.               *)
(***************************************************************************)
\* faulty variant: the bulk decoder does not look at the precision
DecodeFieldBulkIgnoresPrecision(col_item, row) ==
    LET data == RowGet(row, col_item.column_name)
        tag == col_item.data_type.tag
    IN  CASE tag \in {"VarChar", "CLob"} ->
                 IF data = None THEN None ELSE Some(ColumnValue("Varchar", data[1]))
          [] tag = "Number" ->
                 IF data = None THEN None ELSE Some(ColumnValue("Number", data[1]))
          [] tag = "Boolean" ->
                 IF data = None THEN None ELSE Some(ColumnValue("Boolean", data[1]))
          [] tag = "Date" ->
                 IF data = None THEN None ELSE Some(ColumnValue("Date", data[1]))
          [] tag = "DateTime" ->
                 IF data = None THEN None ELSE Some(ColumnValue("DateTime", data[1]))

DecodeFieldBulk(col_item, row) ==
    LET data == RowGet(row, col_item.column_name)
        tag == col_item.data_type.tag
    IN  CASE tag \in {"VarChar", "CLob"} ->
                 IF data = None THEN None ELSE Some(ColumnValue("Varchar", data[1]))
          [] tag = "Number" ->
                 IF col_item.data_type.precision > 0
                 THEN IF data = None THEN None ELSE Some(ColumnValue("Float", data[1]))
                 ELSE IF data = None THEN None ELSE Some(ColumnValue("Number", data[1]))
          [] tag = "Boolean" ->
                 IF data = None THEN None ELSE Some(ColumnValue("Boolean", data[1]))
          [] tag = "Date" ->
                 IF data = None THEN None ELSE Some(ColumnValue("Date", data[1]))
          [] tag = "DateTime" ->
                 IF data = None THEN None ELSE Some(ColumnValue("DateTime", data[1]))

DecodeRowBulk(column_names, row) ==
    [i \in 1..Len(column_names) |->
        DecodeFieldBulk(BTreeMapValues(column_names)[i], row)]

query_data(column_names, rows, failAt) ==
    IF failAt = 0 \/ ~SelectAccepted(SelectColumns(column_names))
    THEN Err(DatabaseError)
    ELSE IF failAt \in 1..(Len(rows) + 1) THEN Err(DatabaseError)
    ELSE Ok([r \in 1..Len(rows) |->
                DataRow(column_names, DecodeRowBulk(column_names, rows[r]))])

(***************************************************************************)
(* The csv writer: one record per serialize call.  An absent value is the  *)
(* empty field, a present one its text.                                    *)
(***************************************************************************)
HeaderRecord(names) == [kind |-> "header", fields |-> names]

SerializeField(column_value) ==
    IF column_value = None THEN "" ELSE ToString(column_value[1].v)

RowRecord(column_values) ==
    [kind |-> "row",
     fields |-> [i \in 1..Len(column_values) |-> SerializeField(column_values[i])]]

(***************************************************************************)
(* State.                                                                  *)
(***************************************************************************)
VARIABLES
    program,      \* "csvdump": main();  "test": lib.rs test_csv_serialization
    catalog,      \* the catalog's rows for the table, as the catalog query met them
    catalogFail,  \* where the driver failed the catalog query (see query_column_data)
    tableRows,    \* the table's native rows, as the SELECT met them
    extra_calls,  \* history: the calls of data.execute after the first
    requested,    \* history: the names passed to with()
    builder,      \* the TableSelectionBuilder
    buildResult,  \* what build returned (value <<>> before the call)
    mainPc,       \* position of the main thread
    exitCode,     \* the status passed to process::exit, 0 when none was
    written,      \* csv_out: the records serialized so far
    queue,        \* data.pipe: the VecDeque<RowIndicator> under the RwLock
    pushed,       \* history: every element ever pushed onto the queue
    prodPc,       \* position inside query_data_threaded
    rowIdx,       \* rows the producer has taken from the result set
    execResult,   \* what data.execute returned: "none", "Ok", "Err"
    consPc,       \* position of the consumer thread
    next_row,     \* the consumer's popped element
    counter,      \* the Arc<RwLock<u64>> row counter
    error_count,  \* the consumer's local count of failed queue lock acquisitions
    lock_failures, \* history: the lock acquisitions that failed, per place in the code
    reported,     \* the count main printed: None until it is read
    tableData     \* test: what table_def.load returned

vars == <<program, catalog, catalogFail, tableRows, extra_calls, requested, builder, buildResult, mainPc,
          exitCode, written, queue, pushed, prodPc, rowIdx, execResult, consPc,
          next_row, counter, error_count, lock_failures, reported, tableData>>

inputVars == <<program, catalog, catalogFail, tableRows, extra_calls>>
builderVars == <<requested, builder, buildResult>>
pipeVars == <<queue, pushed, prodPc, rowIdx, execResult>>
consumerVars == <<consPc, next_row, counter, error_count, lock_failures>>

Init ==
    /\ program \in {"csvdump", "test"}
    /\ catalog = <<>>
    /\ catalogFail = 0
    /\ tableRows = <<>>
    /\ extra_calls = 0
    /\ requested = {}
    /\ builder = TableSelectionBuilderNew("ORDERS")
    /\ buildResult = Err(NoError)
    /\ mainPc = "with"
    /\ exitCode = 0
    /\ written = <<>>
    /\ queue = <<>>
    /\ pushed = <<>>
    /\ prodPc = "idle"
    /\ rowIdx = 0
    /\ execResult = "none"
    /\ consPc = "unspawned"
    /\ next_row = EndOfData
    /\ counter = 0
    /\ error_count = 0
    /\ lock_failures = [queue_read |-> 0, queue_write |-> 0, counter |-> 0,
                        push |-> 0, sentinel |-> 0]
    /\ reported = None
    /\ tableData = Err(NoError)

TableDef == buildResult.value

(***************************************************************************)
(* main(), up to the start of the pipeline.                                *)
(***************************************************************************)
\* for cn in &column_names { builder = builder.with(cn) }
MainWith(cn) ==
    /\ mainPc = "with"
    /\ builder' = TableSelectionBuilderWith(builder, cn)
    /\ requested' = requested \cup {cn}
    /\ UNCHANGED <<inputVars, buildResult, mainPc, exitCode, written, pipeVars,
                   consumerVars, reported, tableData>>

\* faulty variant: the result of build is not looked at, main goes on
MainBuildContinues ==
    /\ mainPc = "with"
    /\ \E rows \in Catalogs : \E failAt \in 0..(Len(rows) + 2) :
           /\ catalog' = rows
           /\ catalogFail' = failAt
           /\ buildResult' = build(builder, rows, failAt)
    /\ mainPc' = IF program = "csvdump" THEN "csv" ELSE "load"
    /\ UNCHANGED <<program, tableRows, extra_calls, requested, builder, exitCode, written, pipeVars,
                   consumerVars, reported, tableData>>

\* faulty variant: a failed build exits with the status of a failed writer
MainBuildExit15 ==
    /\ mainPc = "with"
    /\ \E rows \in Catalogs : \E failAt \in 0..(Len(rows) + 2) :
           /\ catalog' = rows
           /\ catalogFail' = failAt
           /\ buildResult' = build(builder, rows, failAt)
    /\ mainPc' = IF buildResult'.ok
                 THEN (IF program = "csvdump" THEN "csv" ELSE "load")
                 ELSE (IF program = "csvdump" THEN "exit" ELSE "panicked")
    /\ exitCode' = IF ~buildResult'.ok /\ program = "csvdump" THEN 15 ELSE exitCode
    /\ UNCHANGED <<program, tableRows, extra_calls, requested, builder, written, pipeVars, consumerVars,
                   reported, tableData>>

\* builder.build(&conn): exit(12) in main, expect() in the test
MainBuild ==
    /\ mainPc = "with"
    /\ \E rows \in Catalogs : \E failAt \in 0..(Len(rows) + 2) :
           /\ catalog' = rows
           /\ catalogFail' = failAt
           /\ buildResult' = build(builder, rows, failAt)
    /\ mainPc' = IF buildResult'.ok
                 THEN (IF program = "csvdump" THEN "csv" ELSE "load")
                 ELSE (IF program = "csvdump" THEN "exit" ELSE "panicked")
    /\ exitCode' = IF ~buildResult'.ok /\ program = "csvdump" THEN 12 ELSE exitCode
    /\ UNCHANGED <<program, tableRows, extra_calls, requested, builder, written, pipeVars, consumerVars,
                   reported, tableData>>

\* csv::Writer::from_path: exit(15) in main, expect() in the test
MainCreateWriter(created) ==
    /\ mainPc = "csv"
    /\ mainPc' = IF created THEN "header"
                 ELSE (IF program = "csvdump" THEN "exit" ELSE "panicked")
    /\ exitCode' = IF ~created /\ program = "csvdump" THEN 15 ELSE exitCode
    /\ UNCHANGED <<inputVars, builderVars, written, pipeVars, consumerVars,
                   reported, tableData>>

\* faulty variant: the header is not written
MainWriteHeaderSkipped ==
    /\ mainPc = "header"
    /\ mainPc' = IF program = "csvdump" THEN "load_threaded" ELSE "rows"
    /\ UNCHANGED <<inputVars, builderVars, exitCode, written, pipeVars, consumerVars,
                   reported, tableData>>

\* csv_out.serialize(table_def.header())
MainWriteHeader ==
    /\ mainPc = "header"
    /\ written' = Append(written,
                         HeaderRecord(IF program = "csvdump" THEN header(TableDef)
                                      ELSE BTreeMapKeys(tableData.value.column_defs)))
    /\ mainPc' = IF program = "csvdump" THEN "load_threaded" ELSE "rows"
    /\ UNCHANGED <<inputVars, builderVars, exitCode, pipeVars, consumerVars,
                   reported, tableData>>

\* table_def.load_threaded(): the pipe is created empty
MainLoadThreaded ==
    /\ mainPc = "load_threaded"
    /\ queue' = <<>>
    /\ mainPc' = "spawn"
    /\ UNCHANGED <<inputVars, builderVars, exitCode, written, pushed, prodPc,
                   rowIdx, execResult, consumerVars, reported, tableData>>

\* the counter is created at zero and the consumer thread is spawned
MainSpawn ==
    /\ mainPc = "spawn"
    /\ counter' = 0
    /\ error_count' = 0
    /\ consPc' = "check"
    /\ mainPc' = "execute"
    /\ prodPc' = "query"
    /\ UNCHANGED <<inputVars, builderVars, exitCode, written, queue, pushed,
                   rowIdx, execResult, next_row, lock_failures, reported, tableData>>

(***************************************************************************)
(* data.execute(&conn) -> query_data_threaded, on the main thread.  Each   *)
(* push is one critical section of the queue's write lock.                 *)
(***************************************************************************)
\* self.query(&query, &[])?
ProducerQuery ==
    /\ mainPc = "execute" /\ prodPc = "query"
    /\ \E succeeds \in BOOLEAN : \E rows \in ResultSets :
           IF succeeds /\ SelectAccepted(SelectColumns(TableDef.columns))
           THEN /\ prodPc' = "rows"
                /\ tableRows' = rows
                /\ UNCHANGED <<execResult, mainPc>>
           ELSE /\ prodPc' = "returned"
                /\ execResult' = "Err"
                /\ mainPc' = "join"
                /\ UNCHANGED tableRows
    /\ UNCHANGED <<program, catalog, catalogFail, extra_calls, builderVars, exitCode,
                   written, queue, pushed, rowIdx, consumerVars, reported, tableData>>

\* faulty variant: the decoded row is not pushed (what the Err arm of q.write() does)
ProducerRowNoPush ==
    /\ mainPc = "execute" /\ prodPc = "rows"
    /\ rowIdx < Len(tableRows)
    /\ rowIdx' = rowIdx + 1
    /\ UNCHANGED <<inputVars, builderVars, mainPc, exitCode, written, queue, pushed,
                   prodPc, execResult, consumerVars, reported, tableData>>

\* faulty variant: the sentinel push sits inside the loop, after every row
ProducerRowPushesSentinel ==
    /\ mainPc = "execute" /\ prodPc = "rows"
    /\ rowIdx < Len(tableRows)
    /\ LET column_values == DecodeRowThreaded(TableDef.columns, tableRows[rowIdx + 1])
       IN  /\ queue' = queue \o <<MoreToCome(column_values), EndOfData>>
           /\ pushed' = pushed \o <<MoreToCome(column_values), EndOfData>>
    /\ rowIdx' = rowIdx + 1
    /\ UNCHANGED <<inputVars, builderVars, mainPc, exitCode, written, prodPc,
                   execResult, consumerVars, reported, tableData>>

\* one iteration of the loop: the row is fetched, decoded and pushed
ProducerRow ==
    /\ mainPc = "execute" /\ prodPc = "rows"
    /\ rowIdx < Len(tableRows)
    /\ LET column_values == DecodeRowThreaded(TableDef.columns, tableRows[rowIdx + 1])
       IN  /\ queue' = Append(queue, MoreToCome(column_values))
           /\ pushed' = Append(pushed, MoreToCome(column_values))
    /\ rowIdx' = rowIdx + 1
    /\ UNCHANGED <<inputVars, builderVars, mainPc, exitCode, written, prodPc,
                   execResult, consumerVars, reported, tableData>>

\* faulty variant: the error path pushes the sentinel before it returns
ProducerRowErrSentinel(what) ==
    /\ mainPc = "execute" /\ prodPc = "rows"
    /\ what = "decode" => rowIdx < Len(tableRows)
    /\ queue' = Append(queue, EndOfData)
    /\ pushed' = Append(pushed, EndOfData)
    /\ prodPc' = "returned"
    /\ execResult' = "Err"
    /\ mainPc' = "join"
    /\ UNCHANGED <<inputVars, builderVars, exitCode, written, rowIdx,
                   consumerVars, reported, tableData>>

\* row_result? or values_result? returns the error: "fetch" can hit any
\* fetch, the one after the last row included, "decode" a row that exists
ProducerRowErr(what) ==
    /\ mainPc = "execute" /\ prodPc = "rows"
    /\ what = "decode" => rowIdx < Len(tableRows)
    /\ prodPc' = "returned"
    /\ execResult' = "Err"
    /\ mainPc' = "join"
    /\ UNCHANGED <<inputVars, builderVars, exitCode, written, queue, pushed,
                   rowIdx, consumerVars, reported, tableData>>

\* faulty variant: Ok(()) is returned without the sentinel
ProducerEndNoSentinel ==
    /\ mainPc = "execute" /\ prodPc = "rows"
    /\ rowIdx = Len(tableRows)
    /\ prodPc' = "returned"
    /\ execResult' = "Ok"
    /\ mainPc' = "join"
    /\ UNCHANGED <<inputVars, builderVars, exitCode, written, queue, pushed,
                   rowIdx, consumerVars, reported, tableData>>

\* after the loop: EndOfData is pushed and Ok(()) returned
ProducerEnd ==
    /\ mainPc = "execute" /\ prodPc = "rows"
    /\ rowIdx = Len(tableRows)
    /\ queue' = Append(queue, EndOfData)
    /\ pushed' = Append(pushed, EndOfData)
    /\ prodPc' = "returned"
    /\ execResult' = "Ok"
    /\ mainPc' = "join"
    /\ UNCHANGED <<inputVars, builderVars, exitCode, written, rowIdx,
                   consumerVars, reported, tableData>>

(***************************************************************************)
(* The consumer thread (the closure main spawns).                          *)
(***************************************************************************)
\* faulty variant: the pop is attempted without the emptiness test
ConsumerCheckSkipsTest ==
    /\ consPc = "check"
    /\ consPc' = "pop"
    /\ UNCHANGED <<inputVars, builderVars, mainPc, exitCode, written, pipeVars,
                   next_row, counter, error_count, lock_failures, reported, tableData>>

\* thread_queue.read(): is_empty
ConsumerCheck ==
    /\ consPc = "check"
    /\ consPc' = IF queue = <<>> THEN "sleep" ELSE "pop"
    /\ UNCHANGED <<inputVars, builderVars, mainPc, exitCode, written, pipeVars,
                   next_row, counter, error_count, lock_failures, reported, tableData>>

\* thread::sleep(1 s); continue
ConsumerSleep ==
    /\ consPc = "sleep"
    /\ consPc' = "check"
    /\ UNCHANGED <<inputVars, builderVars, mainPc, exitCode, written, pipeVars,
                   next_row, counter, error_count, lock_failures, reported, tableData>>

\* faulty variant: pop_back instead of pop_front
ConsumerPopBack ==
    /\ consPc = "pop"
    /\ IF queue # <<>>
       THEN /\ next_row' = queue[Len(queue)]
            /\ queue' = SubSeq(queue, 1, Len(queue) - 1)
            /\ consPc' = "dispatch"
       ELSE /\ consPc' = "check"
            /\ UNCHANGED <<next_row, queue>>
    /\ UNCHANGED <<inputVars, builderVars, mainPc, exitCode, written, pushed,
                   prodPc, rowIdx, execResult, counter, error_count, lock_failures, reported, tableData>>

\* faulty variant: a successful pop resets the failure count
ConsumerPopResets ==
    /\ consPc = "pop"
    /\ IF queue # <<>>
       THEN /\ next_row' = Head(queue)
            /\ queue' = Tail(queue)
            /\ consPc' = "dispatch"
            /\ error_count' = 0
       ELSE /\ consPc' = "check"
            /\ UNCHANGED <<next_row, queue, error_count>>
    /\ UNCHANGED <<inputVars, builderVars, mainPc, exitCode, written, pushed,
                   prodPc, rowIdx, execResult, counter, lock_failures, reported, tableData>>

\* thread_queue.write(): pop_front; None logs and continues
ConsumerPop ==
    /\ consPc = "pop"
    /\ IF queue # <<>>
       THEN /\ next_row' = Head(queue)
            /\ queue' = Tail(queue)
            /\ consPc' = "dispatch"
       ELSE /\ consPc' = "check"
            /\ UNCHANGED <<next_row, queue>>
    /\ UNCHANGED <<inputVars, builderVars, mainPc, exitCode, written, pushed,
                   prodPc, rowIdx, execResult, counter, error_count, lock_failures, reported, tableData>>

\* faulty variant: the counter is incremented for the sentinel too
ConsumerDispatchCountsSentinel ==
    /\ consPc = "dispatch"
    /\ IF next_row.tag = "MoreToCome"
       THEN /\ written' = Append(written, RowRecord(next_row.values))
            /\ consPc' = "count"
            /\ UNCHANGED counter
       ELSE /\ consPc' = "terminated"
            /\ counter' = counter + 1
            /\ UNCHANGED written
    /\ UNCHANGED <<inputVars, builderVars, mainPc, exitCode, pipeVars, next_row,
                   error_count, lock_failures, reported, tableData>>

\* match next_row: a row is serialized, EndOfData breaks out of the loop
ConsumerDispatch ==
    /\ consPc = "dispatch"
    /\ IF next_row.tag = "MoreToCome"
       THEN /\ written' = Append(written, RowRecord(next_row.values))
            /\ consPc' = "count"
       ELSE /\ consPc' = "terminated"
            /\ UNCHANGED written
    /\ UNCHANGED <<inputVars, builderVars, mainPc, exitCode, pipeVars, next_row,
                   counter, error_count, lock_failures, reported, tableData>>

\* thread_count.write(): *c += 1
ConsumerCount ==
    /\ consPc = "count"
    /\ counter' = counter + 1
    /\ consPc' = "check"
    /\ UNCHANGED <<inputVars, builderVars, mainPc, exitCode, written, pipeVars,
                   next_row, error_count, lock_failures, reported, tableData>>

(***************************************************************************)
(* main() after execute: join the consumer, then read the counter.         *)
(***************************************************************************)
MainJoin ==
    /\ mainPc = "join"
    /\ consPc = "terminated"
    /\ mainPc' = "read"
    /\ UNCHANGED <<inputVars, builderVars, exitCode, written, pipeVars,
                   consumerVars, reported, tableData>>

MainReadCounter ==
    /\ mainPc = "read"
    /\ reported' = Some(counter)
    /\ mainPc' = "done"
    /\ UNCHANGED <<inputVars, builderVars, exitCode, written, pipeVars,
                   consumerVars, tableData>>

(***************************************************************************)
(* lib.rs test_csv_serialization: build, load (bulk), write header and     *)
(* rows on the one thread.                                                 *)
(***************************************************************************)
\* table_def.load(&conn).expect(..)
TestLoad ==
    /\ program = "test" /\ mainPc = "load"
    /\ \E rows \in ResultSets : \E failAt \in 0..(Len(rows) + 2) :
           /\ tableRows' = rows
           /\ LET column_defs == TableDef.columns
                  data == query_data(column_defs, rows, failAt)
              IN  tableData' =
                      IF data.ok
                      THEN Ok([table_name |-> TableDef.table_name,
                               column_defs |-> column_defs, data |-> data.value])
                      ELSE Err(data.err)
    /\ mainPc' = IF tableData'.ok THEN "csv" ELSE "panicked"
    /\ UNCHANGED <<program, catalog, catalogFail, extra_calls, builderVars, exitCode,
                   written, pipeVars, consumerVars, reported>>

\* for row in data.rows() { csv_out.serialize(row) }
TestWriteRow ==
    /\ program = "test" /\ mainPc = "rows"
    /\ IF Len(written) - 1 < Len(tableData.value.data)
       THEN /\ written' = Append(written,
                    RowRecord(tableData.value.data[Len(written)].column_values))
            /\ UNCHANGED mainPc
       ELSE /\ mainPc' = "done"
            /\ UNCHANGED written
    /\ UNCHANGED <<inputVars, builderVars, exitCode, pipeVars, consumerVars,
                   reported, tableData>>

(***************************************************************************)
(* A client of the library on one connection, as lib.rs test_builder is:   *)
(* it requests every column the catalog lists, builds the definition, and  *)
(* retrieves the same result set with both variants, query_data_threaded   *)
(* onto a queue of its own and query_data.  Its catalog rows range over    *)
(* all native types, recognized or not; row i carries the column name i.   *)
(***************************************************************************)
LibNativeTypes ==
    { [DATA_TYPE |-> "NUMBER", DATA_LENGTH |-> None, DATA_PRECISION |-> None],
      [DATA_TYPE |-> "NUMBER", DATA_LENGTH |-> Some(22), DATA_PRECISION |-> Some(0)],
      [DATA_TYPE |-> "NUMBER", DATA_LENGTH |-> Some(22), DATA_PRECISION |-> Some(2)],
      [DATA_TYPE |-> "VARCHAR2", DATA_LENGTH |-> Some(30), DATA_PRECISION |-> None],
      [DATA_TYPE |-> "VARCHAR2", DATA_LENGTH |-> None, DATA_PRECISION |-> None],
      [DATA_TYPE |-> "DATE", DATA_LENGTH |-> Some(7), DATA_PRECISION |-> None],
      [DATA_TYPE |-> "TIMESTAMP(6)", DATA_LENGTH |-> Some(11), DATA_PRECISION |-> None],
      [DATA_TYPE |-> "BOOL", DATA_LENGTH |-> Some(1), DATA_PRECISION |-> None],
      [DATA_TYPE |-> "CLOB", DATA_LENGTH |-> Some(4000), DATA_PRECISION |-> None],
      [DATA_TYPE |-> "BLOB", DATA_LENGTH |-> Some(4000), DATA_PRECISION |-> None],
      [DATA_TYPE |-> "TIMESTAMP(3)", DATA_LENGTH |-> Some(11), DATA_PRECISION |-> None],
      [DATA_TYPE |-> "FLOAT", DATA_LENGTH |-> Some(22), DATA_PRECISION |-> Some(126)] }

LibCatalogs ==
    UNION { { [i \in 1..k |->
                 [COLUMN_NAME |-> i, NULLABLE |-> "Y", DATA_TYPE |-> f[i].DATA_TYPE,
                  DATA_LENGTH |-> f[i].DATA_LENGTH,
                  DATA_PRECISION |-> f[i].DATA_PRECISION]]
              : f \in [1..k -> LibNativeTypes] }
            : k \in 0..MaxCatalog }

\* TableSelectionBuilder::new(..).with(..).with(..) ...
RECURSIVE WithAll(_, _)
WithAll(self, names) ==
    IF names = <<>> THEN self
    ELSE WithAll(TableSelectionBuilderWith(self, Head(names)), Tail(names))

InitLib ==
    /\ program = "lib"
    /\ catalog = <<>>
    /\ catalogFail = 0
    /\ tableRows = <<>>
    /\ extra_calls = 0
    /\ requested = {}
    /\ builder = TableSelectionBuilderNew("ORDERS")
    /\ buildResult = Err(NoError)
    /\ mainPc = "with"
    /\ exitCode = 0
    /\ written = <<>>
    /\ queue = <<>>
    /\ pushed = <<>>
    /\ prodPc = "idle"
    /\ rowIdx = 0
    /\ execResult = "none"
    /\ consPc = "unspawned"
    /\ next_row = EndOfData
    /\ counter = 0
    /\ error_count = 0
    /\ lock_failures = [queue_read |-> 0, queue_write |-> 0, counter |-> 0,
                        push |-> 0, sentinel |-> 0]
    /\ reported = None
    /\ tableData = Err(NoError)

\* the with() calls and builder.build(&conn).expect(..); the driver does not
\* fail the catalog query here
LibBuild ==
    /\ program = "lib" /\ mainPc = "with"
    /\ \E rows \in LibCatalogs :
           /\ catalog' = rows
           /\ catalogFail' = Len(rows) + 2
           /\ requested' = {rows[i].COLUMN_NAME : i \in 1..Len(rows)}
           /\ builder' = WithAll(builder, [i \in 1..Len(rows) |-> rows[i].COLUMN_NAME])
           /\ buildResult' = build(builder', rows, catalogFail')
    /\ mainPc' = IF buildResult'.ok THEN "execute" ELSE "panicked"
    /\ prodPc' = IF buildResult'.ok THEN "query" ELSE prodPc
    /\ UNCHANGED <<program, tableRows, extra_calls, exitCode, written, queue, pushed,
                   rowIdx, execResult, consumerVars, reported, tableData>>

\* conn.query_data(table, column_defs) on the result set the streaming
\* variant met
LibQueryData ==
    /\ program = "lib" /\ mainPc = "join"
    /\ \E failAt \in 0..(Len(tableRows) + 2) :
           tableData' =
               LET data == query_data(TableDef.columns, tableRows, failAt)
               IN  IF data.ok
                   THEN Ok([table_name |-> TableDef.table_name,
                            column_defs |-> TableDef.columns, data |-> data.value])
                   ELSE Err(data.err)
    /\ mainPc' = "done"
    /\ UNCHANGED <<inputVars, builderVars, exitCode, written, pipeVars, consumerVars,
                   reported>>

(***************************************************************************)
(* Lock acquisition failures.  RwLock::read and RwLock::write return Err   *)
(* when the lock is poisoned; the program cannot tell why an acquisition   *)
(* failed, so under SpecFault any acquisition may fail.  A panic unwinds   *)
(* the thread that raised it: the consumer's panic ends the consumer       *)
(* thread only and is what t_handle.join() returns as Err.  The producer   *)
(* runs inside data.execute on main's thread: its panic is main's, and the *)
(* process ends with it; the steps the consumer takes after it are those   *)
(* it may still take before the process is gone.                           *)
(***************************************************************************)
\* if error_count > 3 { panic!(..) }
ErrorThreshold == 3

\* thread_queue.read() is Err: counted, fatal beyond the threshold, else the
\* queue is taken to be empty (sleep, continue)
ConsumerCheckLockFail ==
    /\ consPc = "check"
    /\ error_count' = error_count + 1
    /\ consPc' = IF error_count' > ErrorThreshold THEN "panicked" ELSE "sleep"
    /\ lock_failures' = [lock_failures EXCEPT !.queue_read = @ + 1]
    /\ UNCHANGED <<inputVars, builderVars, mainPc, exitCode, written, pipeVars,
                   next_row, counter, reported, tableData>>

\* thread_queue.write() is Err: counted, fatal beyond the threshold, else
\* continue
ConsumerPopLockFail ==
    /\ consPc = "pop"
    /\ error_count' = error_count + 1
    /\ consPc' = IF error_count' > ErrorThreshold THEN "panicked" ELSE "check"
    /\ lock_failures' = [lock_failures EXCEPT !.queue_write = @ + 1]
    /\ UNCHANGED <<inputVars, builderVars, mainPc, exitCode, written, pipeVars,
                   next_row, counter, reported, tableData>>

\* faulty variant: the failure is counted against the consumer's budget
ConsumerCountLockFailCounted ==
    /\ consPc = "count"
    /\ error_count' = error_count + 1
    /\ consPc' = IF error_count' > ErrorThreshold THEN "panicked" ELSE "check"
    /\ lock_failures' = [lock_failures EXCEPT !.counter = @ + 1]
    /\ UNCHANGED <<inputVars, builderVars, mainPc, exitCode, written, pipeVars,
                   next_row, counter, reported, tableData>>

\* faulty variant: expect() on the counter's lock instead of the match
ConsumerCountLockFailPanics ==
    /\ consPc = "count"
    /\ consPc' = "panicked"
    /\ lock_failures' = [lock_failures EXCEPT !.counter = @ + 1]
    /\ UNCHANGED <<inputVars, builderVars, mainPc, exitCode, written, pipeVars,
                   next_row, counter, error_count, reported, tableData>>

\* thread_count.write() is Err: logged, the loop goes on
ConsumerCountLockFail ==
    /\ consPc = "count"
    /\ consPc' = "check"
    /\ lock_failures' = [lock_failures EXCEPT !.counter = @ + 1]
    /\ UNCHANGED <<inputVars, builderVars, mainPc, exitCode, written, pipeVars,
                   next_row, counter, error_count, reported, tableData>>

\* t_handle.join() is Err (the consumer panicked): logged, main goes on
MainJoinErr ==
    /\ mainPc = "join"
    /\ consPc = "panicked"
    /\ mainPc' = "read"
    /\ UNCHANGED <<inputVars, builderVars, exitCode, written, pipeVars,
                   consumerVars, reported, tableData>>

\* counter.read() is Err: logged, no count is printed, main returns
MainReadCounterErr ==
    /\ mainPc = "read"
    /\ mainPc' = "done"
    /\ UNCHANGED <<inputVars, builderVars, exitCode, written, pipeVars,
                   consumerVars, reported, tableData>>

\* faulty variant: the failed push is returned to the caller as an error
ProducerRowLockFailReturnsErr ==
    /\ mainPc = "execute" /\ prodPc = "rows"
    /\ rowIdx < Len(tableRows)
    /\ rowIdx' = rowIdx + 1
    /\ prodPc' = "returned"
    /\ execResult' = "Err"
    /\ mainPc' = "join"
    /\ lock_failures' = [lock_failures EXCEPT !.push = @ + 1]
    /\ UNCHANGED <<inputVars, builderVars, exitCode, written, queue, pushed,
                   consPc, next_row, counter, error_count, reported, tableData>>

\* q.write() is Err for a decoded row: logged, the row is not pushed and the
\* loop goes on with the next row
ProducerRowLockFail ==
    /\ mainPc = "execute" /\ prodPc = "rows"
    /\ rowIdx < Len(tableRows)
    /\ rowIdx' = rowIdx + 1
    /\ lock_failures' = [lock_failures EXCEPT !.push = @ + 1]
    /\ UNCHANGED <<inputVars, builderVars, mainPc, exitCode, written, queue, pushed,
                   prodPc, execResult, consPc, next_row, counter, error_count,
                   reported, tableData>>

\* faulty variant: the failure to push the sentinel is returned as an error
ProducerEndLockFailReturnsErr ==
    /\ mainPc = "execute" /\ prodPc = "rows"
    /\ rowIdx = Len(tableRows)
    /\ prodPc' = "returned"
    /\ execResult' = "Err"
    /\ mainPc' = "join"
    /\ lock_failures' = [lock_failures EXCEPT !.sentinel = @ + 1]
    /\ UNCHANGED <<inputVars, builderVars, exitCode, written, queue, pushed, rowIdx,
                   consPc, next_row, counter, error_count, reported, tableData>>

\* q.write() is Err for the sentinel: panic!("Avoiding deadlock.") inside
\* query_data_threaded, on the thread that called execute
ProducerEndLockFail ==
    /\ mainPc = "execute" /\ prodPc = "rows"
    /\ rowIdx = Len(tableRows)
    /\ prodPc' = "panicked"
    /\ mainPc' = "panicked"
    /\ lock_failures' = [lock_failures EXCEPT !.sentinel = @ + 1]
    /\ UNCHANGED <<inputVars, builderVars, exitCode, written, queue, pushed, rowIdx,
                   execResult, consPc, next_row, counter, error_count, reported,
                   tableData>>

(***************************************************************************)
(* A client that calls data.execute(&conn) again on the same               *)
(* ThreadedTableData once a call has returned, before it joins its         *)
(* consumer.  execute takes &self and passes self.pipe.clone() to          *)
(* query_data_threaded each time: the same queue, as it is.                *)
(***************************************************************************)
\* faulty variant: execute starts every scan on an emptied pipe
ExecuteAgainFreshPipe ==
    /\ program = "csvdump"
    /\ mainPc = "join" /\ prodPc = "returned"
    /\ extra_calls + 1 < MaxExecute
    /\ extra_calls' = extra_calls + 1
    /\ queue' = <<>>
    /\ mainPc' = "execute"
    /\ prodPc' = "query"
    /\ rowIdx' = 0
    /\ execResult' = "none"
    /\ UNCHANGED <<program, catalog, catalogFail, tableRows, builderVars, exitCode,
                   written, pushed, consumerVars, reported, tableData>>

ExecuteAgain ==
    /\ program = "csvdump"
    /\ mainPc = "join" /\ prodPc = "returned"
    /\ extra_calls + 1 < MaxExecute
    /\ extra_calls' = extra_calls + 1
    /\ mainPc' = "execute"
    /\ prodPc' = "query"
    /\ rowIdx' = 0
    /\ execResult' = "none"
    /\ UNCHANGED <<program, catalog, catalogFail, tableRows, builderVars, exitCode,
                   written, queue, pushed, consumerVars, reported, tableData>>

(***************************************************************************)
(* Specifications.                                                         *)
(***************************************************************************)
MainThread ==
    \/ \E cn \in Names : MainWith(cn)
    \/ MainBuild
    \/ \E created \in BOOLEAN : MainCreateWriter(created)
    \/ MainWriteHeader
    \/ MainLoadThreaded
    \/ MainSpawn
    \/ ProducerQuery
    \/ ProducerRow
    \/ \E what \in {"fetch", "decode"} : ProducerRowErr(what)
    \/ ProducerEnd
    \/ MainJoin
    \/ MainReadCounter
    \/ TestLoad
    \/ TestWriteRow

Consumer ==
    \/ ConsumerCheck
    \/ ConsumerSleep
    \/ ConsumerPop
    \/ ConsumerDispatch
    \/ ConsumerCount

Next == MainThread \/ Consumer

Spec == Init /\ [][Next]_vars

\* both threads are scheduled: neither is starved while it can take a step
FairSpec == Spec /\ WF_vars(MainThread) /\ WF_vars(Consumer)

\* the library under its client: build, then both retrieval variants
NextLib ==
    \/ LibBuild
    \/ ProducerQuery
    \/ ProducerRow
    \/ \E what \in {"fetch", "decode"} : ProducerRowErr(what)
    \/ ProducerEnd
    \/ LibQueryData

SpecLib == InitLib /\ [][NextLib]_vars

\* the program where lock acquisitions may fail
LockFailure ==
    \/ ConsumerCheckLockFail
    \/ ConsumerPopLockFail
    \/ ConsumerCountLockFail
    \/ MainJoinErr
    \/ MainReadCounterErr
    \/ ProducerRowLockFail
    \/ ProducerEndLockFail

NextFault == Next \/ LockFailure

SpecFault == Init /\ [][NextFault]_vars

\* the pipeline under a client that may call execute more than once
NextAgain == Next \/ ExecuteAgain

SpecAgain == Init /\ [][NextAgain]_vars

(***************************************************************************)
(* Properties.                                                             *)
(***************************************************************************)
RowsPushed == SelectSeq(pushed, LAMBDA e : e.tag = "MoreToCome")
RowsWritten == SelectSeq(written, LAMBDA r : r.kind = "row")
SentinelPushed == \E i \in 1..Len(pushed) : pushed[i].tag = "EndOfData"
ObservedEnd == consPc \in {"dispatch", "terminated"} /\ next_row.tag = "EndOfData"

\* C1: when the scan of a table of N rows returns without error, the producer
\* has pushed exactly N MoreToCome followed by exactly one EndOfData; once the
\* consumer has terminated the file holds the header record followed by
\* exactly N data records; and the count main reads after the join is N.
C1_RowCount ==
    (program = "csvdump" /\ execResult = "Ok") =>
        LET N == Len(tableRows)
        IN  /\ Len(pushed) = N + 1
            /\ \A i \in 1..N : pushed[i].tag = "MoreToCome"
            /\ pushed[N + 1].tag = "EndOfData"
            /\ consPc = "terminated" =>
                   /\ Len(written) = N + 1
                   /\ written[1].kind = "header"
                   /\ \A i \in 2..(N + 1) : written[i].kind = "row"
                   /\ counter = N
            /\ mainPc = "done" => reported = Some(N)

C1_Witness ==
    /\ program = "csvdump" /\ execResult = "Ok" /\ mainPc = "done"
    /\ Len(tableRows) >= 2
    /\ reported = Some(Len(tableRows))

\* C2: strict FIFO: the producer pushes the rows in retrieval order, the data
\* records the consumer has written are, in order, the records of the first
\* rows pushed, and when the consumer has popped EndOfData every row pushed
\* before it has been serialized.
C2_Fifo ==
    program = "csvdump" =>
        /\ \A k \in 1..Len(RowsPushed) :
               RowsPushed[k].values = DecodeRowThreaded(TableDef.columns, tableRows[k])
        /\ Len(RowsWritten) <= Len(RowsPushed)
        /\ \A k \in 1..Len(RowsWritten) :
               RowsWritten[k] = RowRecord(RowsPushed[k].values)
        /\ ObservedEnd => Len(RowsWritten) = Len(RowsPushed)

C2_Witness ==
    /\ program = "csvdump" /\ consPc = "terminated"
    /\ Len(RowsWritten) >= 2
    /\ RowsWritten[1] # RowsWritten[2]

\* C3: of everything ever pushed onto the queue, only the last element can be
\* EndOfData: at most one EndOfData has been pushed and nothing after it.
C3_SentinelLast ==
    \A i \in 1..Len(pushed) : pushed[i].tag = "EndOfData" => i = Len(pushed)

C3_Witness ==
    /\ Len(pushed) >= 3
    /\ pushed[Len(pushed)].tag = "EndOfData"
    /\ queue = <<>>

\* C4: when the producer has returned Ok, under fair scheduling the consumer
\* pops EndOfData and terminates, the join returns and main reads the
\* counter; and the consumer only ever becomes terminated by dispatching a
\* popped EndOfData.
C4_ConsumerTerminates ==
    /\ (program = "csvdump" /\ execResult = "Ok")
           ~> (consPc = "terminated" /\ mainPc = "done" /\ reported # None)
    /\ [][(consPc' = "terminated" /\ consPc # "terminated")
              => (consPc = "dispatch" /\ next_row.tag = "EndOfData")]_vars

C4_Witness ==
    /\ program = "csvdump" /\ execResult = "Ok"
    /\ consPc = "terminated" /\ mainPc = "done" /\ reported # None
    /\ next_row.tag = "EndOfData"

\* C5: when the producer has returned an error, no EndOfData has been or is
\* ever pushed, the consumer is never terminated and main never gets past
\* the join; under fair scheduling the consumer serializes every row that was
\* pushed and from then on only polls the empty queue.
C5_ProducerErrorHangs ==
    /\ [](execResult = "Err" =>
              (~SentinelPushed /\ consPc # "terminated" /\ mainPc = "join"))
    /\ (execResult = "Err")
           ~> [](/\ queue = <<>>
                 /\ consPc \in {"check", "sleep"}
                 /\ Len(RowsWritten) = Len(RowsPushed))

C5_Witness ==
    /\ execResult = "Err"
    /\ Len(RowsPushed) >= 1
    /\ Len(RowsWritten) = Len(RowsPushed)
    /\ queue = <<>> /\ consPc = "sleep"

(***************************************************************************)
(* The builder's inputs and the reference notions its claims use.          *)
(***************************************************************************)
Built == mainPc # "with"
CatalogNames == {catalog[i].COLUMN_NAME : i \in 1..Len(catalog)}
DriverFailed == catalogFail <= Len(catalog) + 1
Discovered == query_column_data(catalog, catalogFail)
DiscoveredNames == {Discovered.value[i].column_name : i \in 1..Len(Discovered.value)}

Smallest(S) == CHOOSE x \in S : \A y \in S : x <= y

RECURSIVE Ascending(_)
Ascending(S) == IF S = {} THEN <<>> ELSE <<Smallest(S)>> \o Ascending(S \ {Smallest(S)})

\* C6 as stated: whenever the requested names are a subset of the column
\* names the catalog holds for the table, build succeeds and header() is the
\* requested names in ascending order (stated for the runs in which the
\* driver itself does not fail and at least one name is requested).
C6_Original ==
    (Built /\ ~DriverFailed /\ requested # {} /\ requested \subseteq CatalogNames) =>
        (buildResult.ok /\ header(TableDef) = Ascending(requested))

\* C6 amended: whenever query_column_data succeeds (no driver error, and
\* every column the catalog holds for the table, requested or not, is of a
\* recognized native type) and the requested names are a subset of the
\* catalog's column names, build succeeds and header() is the requested names
\* in ascending order.
C6_BuildSucceeds ==
    (Built /\ Discovered.ok /\ requested \subseteq CatalogNames) =>
        (buildResult.ok /\ header(TableDef) = Ascending(requested))

C6_Witness ==
    /\ Built /\ buildResult.ok
    /\ Cardinality(requested) = 2
    /\ Len(catalog) = 2 /\ catalog[1].COLUMN_NAME > catalog[2].COLUMN_NAME
    /\ Len(header(TableDef)) = 2

\* C7: whenever a requested name is absent from the discovered columns (the
\* columns query_column_data returned), build fails with UnknownColumn of the
\* smallest requested name that is not discovered, whatever the order of the
\* with() calls that requested the names.
C7_UnknownColumn ==
    (Built /\ Discovered.ok /\ requested \ DiscoveredNames # {}) =>
        (/\ ~buildResult.ok
         /\ buildResult.err = UnknownColumn(Smallest(requested \ DiscoveredNames)))

C7_Witness ==
    /\ Built /\ Discovered.ok
    /\ DiscoveredNames # {}
    /\ Cardinality(requested \ DiscoveredNames) >= 2
    /\ buildResult.err.kind = "UnknownColumn"

\* C8: whenever build returned a TableDefinition, the keys of its columns map
\* are exactly the requested names, every key maps to a discovered definition
\* of the column of that name, and the entries are in strictly ascending
\* order of name.
C8_ColumnsExact ==
    buildResult.ok =>
        LET m == TableDef.columns
        IN  /\ {m[i].key : i \in 1..Len(m)} = requested
            /\ \A i \in 1..Len(m) :
                   /\ m[i].value.column_name = m[i].key
                   /\ m[i].value \in Range(Discovered.value)
            /\ \A i, j \in 1..Len(m) : i < j => m[i].key < m[j].key

C8_Witness ==
    /\ buildResult.ok
    /\ Cardinality(CatalogNames) = 2
    /\ Len(TableDef.columns) = 1

\* the value the row's native field of the named column decodes to
HoldsField(column_value, field) ==
    IF field.null THEN column_value = None
    ELSE column_value # None /\ column_value[1].v = field.v

\* C9: every payload pushed, and every DataRow the bulk variant returned, has
\* exactly len(columns) entries, the i-th being the value of the i-th column
\* in ascending order of name, which is the order of the header and of the
\* SELECT column list.
C9_RowShape ==
    buildResult.ok =>
        LET hdr == header(TableDef)
        IN  /\ \A i, j \in 1..Len(hdr) : i < j => hdr[i] < hdr[j]
            /\ SelectColumns(TableDef.columns) = hdr
            /\ \A k \in 1..Len(RowsPushed) :
                   /\ Len(RowsPushed[k].values) = Len(TableDef.columns)
                   /\ \A i \in 1..Len(hdr) :
                          HoldsField(RowsPushed[k].values[i], tableRows[k][hdr[i]])
            /\ tableData.ok =>
                   \A k \in 1..Len(tableData.value.data) :
                       /\ Len(tableData.value.data[k].column_values) = Len(TableDef.columns)
                       /\ \A i \in 1..Len(hdr) :
                              HoldsField(tableData.value.data[k].column_values[i],
                                         tableRows[k][hdr[i]])

C9_Witness ==
    /\ program = "csvdump" /\ buildResult.ok
    /\ Len(catalog) = 2 /\ catalog[1].COLUMN_NAME > catalog[2].COLUMN_NAME
    /\ Len(TableDef.columns) = 2
    /\ Len(RowsPushed) >= 2

C9_WitnessBulk ==
    /\ program = "test" /\ tableData.ok
    /\ Len(TableDef.columns) = 2
    /\ Len(tableData.value.data) >= 2

\* C10: the counter is zero until the consumer runs; at every moment it is the
\* number of data records the consumer has written, less the one whose
\* increment is still pending; it only changes by the consumer's increment
\* after a row, by one; and main reads it only when the consumer has
\* terminated and been joined.
C10_Counter ==
    /\ [](/\ consPc = "unspawned" => counter = 0
          /\ program = "csvdump" =>
                 counter = Len(RowsWritten) - (IF consPc = "count" THEN 1 ELSE 0)
          /\ reported # None => (consPc = "terminated" /\ reported = Some(counter)))
    /\ [][counter' # counter =>
              (/\ counter' = counter + 1
               /\ consPc = "count"
               /\ next_row.tag = "MoreToCome")]_vars
    /\ [][reported' # reported => (consPc = "terminated" /\ mainPc = "read")]_vars

C10_Witness ==
    /\ consPc = "count" /\ counter = 1
    /\ Len(RowsWritten) = 2

(***************************************************************************)
(* Lock acquisition failures (SpecFault).                                  *)
(***************************************************************************)
QueueFailures == lock_failures.queue_read + lock_failures.queue_write

\* rows written whose increment of the counter was not made and is not pending
LostIncrements == Len(RowsWritten) - counter - (IF consPc = "count" THEN 1 ELSE 0)

\* C11 as stated: a failure to lock the counter counts against the same
\* budget as a failure to lock the queue and the increment is retried, so a
\* consumer that ends normally has counted every row it wrote.
C11_Original ==
    /\ error_count = QueueFailures + lock_failures.counter
    /\ consPc = "terminated" => counter = Len(RowsWritten)

\* C11 amended: only failures to lock the queue are retried up to the budget
\* and fatal beyond it; a failure to lock the counter is not counted against
\* the budget, is not retried (the increment of that row is lost for good)
\* and is never fatal.
C11_CounterFailureUncounted ==
    /\ [](program = "csvdump" => LostIncrements = lock_failures.counter)
    /\ [][lock_failures.counter' # lock_failures.counter
              => (error_count' = error_count /\ consPc' # "panicked")]_vars
    /\ [][(consPc' = "panicked" /\ consPc # "panicked")
              => (QueueFailures' = QueueFailures + 1
                  /\ QueueFailures' > ErrorThreshold)]_vars
    /\ [][(QueueFailures' # QueueFailures /\ QueueFailures' <= ErrorThreshold)
              => consPc' \in {"sleep", "check"}]_vars

C11_Witness ==
    /\ consPc = "terminated"
    /\ lock_failures.counter = 2
    /\ QueueFailures = 2
    /\ counter = 0 /\ Len(RowsWritten) = 2

\* C12: a failure to lock the counter after a row was serialized leaves the
\* row written and the queue as it is, does not abort the consumer, which
\* goes back to the top of its loop; and a consumer that ends normally has
\* serialized every row pushed, whatever failed on the counter.
C12_CounterFailureLogged ==
    /\ [][lock_failures.counter' # lock_failures.counter
              => (/\ written' = written
                  /\ written[Len(written)] = RowRecord(next_row.values)
                  /\ queue' = queue
                  /\ counter' = counter
                  /\ consPc' = "check")]_vars
    /\ [](consPc = "terminated" => Len(RowsWritten) = Len(RowsPushed))

C12_Witness ==
    /\ consPc = "terminated"
    /\ lock_failures.counter = 1
    /\ counter = 1 /\ Len(RowsWritten) = 2
    /\ mainPc = "done" /\ reported = Some(1)

\* C13: the consumer's failure count is the number of failed read-lock and
\* write-lock acquisitions on the queue since the thread started (a success
\* never resets it); a failure that leaves the count at 3 or less is retried
\* with nothing written or popped, and the consumer has aborted exactly when
\* the count has exceeded 3, which the fourth failure does.
C13_FailureBudget ==
    /\ [](/\ error_count = QueueFailures
          /\ error_count <= 4
          /\ consPc = "panicked" <=> error_count > 3)
    /\ [][QueueFailures' # QueueFailures
              => (/\ error_count' = error_count + 1
                  /\ written' = written /\ queue' = queue
                  /\ IF error_count' <= 3 THEN consPc' \in {"sleep", "check"}
                     ELSE consPc' = "panicked")]_vars

C13_Witness ==
    /\ consPc = "panicked" /\ error_count = 4
    /\ lock_failures.queue_read >= 1 /\ lock_failures.queue_write >= 1
    /\ Len(RowsWritten) >= 1

\* C14: once the consumer has exhausted its budget and aborted, main does not
\* report a row count and does not return normally.
C14_ProcessAborts ==
    consPc = "panicked" => (reported = None /\ mainPc # "done")

(***************************************************************************)
(* main()'s exit statuses.                                                 *)
(***************************************************************************)
\* C15 as stated: after a failed build, and after execute returned an error,
\* main has exited with a non-zero status, and the status after a producer
\* error differs from the one after a failed build.
C15_Original ==
    program = "csvdump" =>
        /\ (Built /\ ~buildResult.ok) => (mainPc = "exit" /\ exitCode # 0)
        /\ execResult = "Err" => (mainPc = "exit" /\ exitCode \notin {0, 12})

\* C15 amended: after a failed build main has exited with status 12, which no
\* other failure uses; after execute returned an error main has not exited:
\* it is joining the consumer or beyond, and no non-zero status is ever
\* passed to exit on that account (13 is never used).
C15_ExitStatus ==
    program = "csvdump" =>
        /\ (Built /\ ~buildResult.ok) => (mainPc = "exit" /\ exitCode = 12)
        /\ exitCode = 12 => (Built /\ ~buildResult.ok)
        /\ exitCode \in {0, 12, 15}
        /\ mainPc = "exit" <=> exitCode # 0
        /\ execResult = "Err" => (exitCode = 0 /\ mainPc \in {"join", "read", "done"})

C15_Witness ==
    /\ program = "csvdump" /\ execResult = "Err"
    /\ Len(RowsWritten) >= 1
    /\ mainPc = "done" /\ exitCode = 0

(***************************************************************************)
(* The order of main()'s steps.                                            *)
(***************************************************************************)
\* C16: when build has failed with UnknownColumn or UnknownDataType, main has
\* stopped right there: no record (so no header) was written, no row SELECT
\* was issued by either retrieval variant, the producer was not started and
\* the consumer thread was not spawned.
C16_FailFast ==
    (Built /\ ~buildResult.ok
       /\ buildResult.err.kind \in {"UnknownColumn", "UnknownDataType"}) =>
        /\ mainPc \in {"exit", "panicked"}
        /\ written = <<>>
        /\ prodPc = "idle" /\ execResult = "none" /\ pushed = <<>>
        /\ tableRows = <<>> /\ tableData = Err(NoError)
        /\ consPc = "unspawned"

C16_Witness ==
    /\ program = "csvdump" /\ Built
    /\ buildResult.err.kind = "UnknownDataType"
    /\ requested # {}
    /\ mainPc = "exit" /\ exitCode = 12

C16_WitnessUnknownColumn ==
    /\ program = "csvdump" /\ Built
    /\ buildResult.err.kind = "UnknownColumn"
    /\ Len(catalog) = 2
    /\ mainPc = "exit" /\ exitCode = 12

\* C17: the file holds at most one header record and it is the first record;
\* it is there before the consumer thread is started; in csvdump it is written
\* by main while the consumer is not yet spawned, and every other write is
\* the consumer's serialization of the row it popped, a step main takes no
\* part in.
C17_HeaderOnce ==
    /\ [](/\ written # <<>> => written[1].kind = "header"
          /\ \A i \in 2..Len(written) : written[i].kind = "row"
          /\ consPc # "unspawned" => Len(written) >= 1)
    /\ [][(program = "csvdump" /\ written' # written) =>
              \/ /\ consPc = "unspawned" /\ consPc' = "unspawned"
                 /\ mainPc = "header"
                 /\ written = <<>> /\ written' = <<HeaderRecord(header(TableDef))>>
              \/ /\ consPc = "dispatch" /\ consPc' = "count"
                 /\ written' = Append(written, RowRecord(next_row.values))
                 /\ UNCHANGED <<mainPc, prodPc, rowIdx>>]_vars

C17_Witness ==
    /\ program = "csvdump" /\ consPc = "terminated"
    /\ Len(written) = 3
    /\ written[1].kind = "header" /\ written[3].kind = "row"

C17_WitnessTest ==
    /\ program = "test" /\ mainPc = "done"
    /\ Len(written) = 3

(***************************************************************************)
(* The type mapping and the decoding, under the library's client (SpecLib).*)
(***************************************************************************)
RecognizedTypeNames == {"NUMBER", "VARCHAR2", "CLOB", "DATE", "TIMESTAMP(6)", "BOOL"}

AbsentAsZero(o) == IF o = <<>> THEN 0 ELSE o[1]

\* the kind stated for a catalog row of a recognized native type
StatedKind(row) ==
    CASE row.DATA_TYPE = "NUMBER" ->
             [tag |-> "Number", length |-> AbsentAsZero(row.DATA_LENGTH),
              precision |-> AbsentAsZero(row.DATA_PRECISION)]
      [] row.DATA_TYPE = "VARCHAR2" ->
             [tag |-> "VarChar", length |-> AbsentAsZero(row.DATA_LENGTH), precision |-> 0]
      [] row.DATA_TYPE = "CLOB" -> [tag |-> "CLob", length |-> 0, precision |-> 0]
      [] row.DATA_TYPE = "DATE" -> [tag |-> "Date", length |-> 0, precision |-> 0]
      [] row.DATA_TYPE = "TIMESTAMP(6)" -> [tag |-> "DateTime", length |-> 0, precision |-> 0]
      [] row.DATA_TYPE = "BOOL" -> [tag |-> "Boolean", length |-> 0, precision |-> 0]

UnrecognizedRows == {i \in 1..Len(catalog) : catalog[i].DATA_TYPE \notin RecognizedTypeNames}

\* C18: a catalog whose rows all have a recognized native type gives every
\* column the stated kind (Number with length and precision, absent taken as
\* 0; VarChar with length; Clob; Date; DateTime; Boolean); a catalog with a
\* row of any other type name x gives no definition at all but
\* UnknownDataType(x), x being the type name of the first such row.
C18_TypeMapping ==
    (program = "lib" /\ Built) =>
        IF UnrecognizedRows = {}
        THEN /\ buildResult.ok
             /\ Len(TableDef.columns) = Len(catalog)
             /\ \A i \in 1..Len(catalog) :
                    \E j \in 1..Len(TableDef.columns) :
                        /\ TableDef.columns[j].key = catalog[i].COLUMN_NAME
                        /\ TableDef.columns[j].value.data_type = StatedKind(catalog[i])
        ELSE /\ ~buildResult.ok
             /\ buildResult.err.kind = "UnknownDataType"
             /\ buildResult.err.data_type = catalog[Smallest(UnrecognizedRows)].DATA_TYPE

C18_Witness ==
    /\ program = "lib" /\ buildResult.ok
    /\ Len(catalog) = 2
    /\ catalog[1].DATA_TYPE = "NUMBER" /\ catalog[1].DATA_PRECISION = None
    /\ catalog[2].DATA_TYPE = "TIMESTAMP(6)"

C18_WitnessUnknown ==
    /\ program = "lib" /\ Built /\ ~buildResult.ok
    /\ Len(catalog) = 2
    /\ catalog[1].DATA_TYPE = "CLOB" /\ catalog[2].DATA_TYPE = "TIMESTAMP(3)"

\* the variant stated for a kind
StatedVariant(data_type) ==
    CASE data_type.tag \in {"VarChar", "CLob"} -> "Varchar"
      [] data_type.tag = "Number" /\ data_type.precision > 0 -> "Float"
      [] data_type.tag = "Number" /\ data_type.precision = 0 -> "Number"
      [] data_type.tag = "Boolean" -> "Boolean"
      [] data_type.tag = "Date" -> "Date"
      [] data_type.tag = "DateTime" -> "DateTime"

DecodedAsStated(column_value, column_def, row) ==
    LET field == row[column_def.column_name]
    IN  /\ column_value = <<>> <=> field.null
        /\ ~field.null =>
               column_value = <<[variant |-> StatedVariant(column_def.data_type),
                                 v |-> field.v]>>

\* C19: every value decoded, by the streaming variant and by the bulk one, is
\* absent exactly when the native field is NULL, and is otherwise the field's
\* value in the variant stated for the column's kind.
C19_Decoding ==
    (program = "lib" /\ buildResult.ok) =>
        LET columns == TableDef.columns
        IN  /\ \A k \in 1..Len(RowsPushed) : \A i \in 1..Len(columns) :
                   DecodedAsStated(RowsPushed[k].values[i], columns[i].value, tableRows[k])
            /\ tableData.ok =>
                   \A k \in 1..Len(tableData.value.data) : \A i \in 1..Len(columns) :
                       DecodedAsStated(tableData.value.data[k].column_values[i],
                                       columns[i].value, tableRows[k])

C19_Witness ==
    /\ program = "lib" /\ buildResult.ok
    /\ Len(TableDef.columns) = 2
    /\ TableDef.columns[1].value.data_type.tag = "DateTime"
    /\ TableDef.columns[2].value.data_type.tag = "Number"
    /\ TableDef.columns[2].value.data_type.precision > 0
    /\ Len(RowsPushed) = 2
    /\ RowsPushed[1].values[2] = <<>>
    /\ RowsPushed[2].values[2] # <<>>

\* C20: when both variants have succeeded on the same result set and column
\* map, what the streaming variant pushed is, in order, one MoreToCome for
\* each row the bulk variant returned, carrying that row's column values,
\* followed by the single EndOfData.
C20_StreamingEqualsBulk ==
    (program = "lib" /\ mainPc = "done" /\ execResult = "Ok" /\ tableData.ok) =>
        LET data == tableData.value.data
        IN  /\ Len(pushed) = Len(data) + 1
            /\ \A k \in 1..Len(data) :
                   /\ pushed[k].tag = "MoreToCome"
                   /\ pushed[k].values = data[k].column_values
            /\ pushed[Len(pushed)].tag = "EndOfData"

C20_Witness ==
    /\ program = "lib" /\ mainPc = "done" /\ execResult = "Ok" /\ tableData.ok
    /\ Len(tableData.value.data) = 2
    /\ Len(TableDef.columns) = 2
    /\ TableDef.columns[1].value.data_type.tag = "Number"
    /\ TableDef.columns[1].value.data_type.precision > 0
    /\ TableDef.columns[2].value.data_type.tag = "VarChar"

(***************************************************************************)
(* The order of build's checks.                                            *)
(***************************************************************************)
\* the first catalog row, in result order, of unrecognized native type
FirstUnrecognized == Smallest(UnrecognizedRows)

\* C21: when the catalog returns a row of unrecognized native type (the
\* driver has not failed before it was read), build has failed with
\* UnknownDataType of that type name, whether or not the column was
\* requested and whether or not a requested name is missing from the
\* catalog: the result is never UnknownColumn and never a definition.
C21_UnknownTypeFirst ==
    (Built /\ UnrecognizedRows # {} /\ catalogFail > FirstUnrecognized) =>
        buildResult = Err(UnknownDataType(catalog[FirstUnrecognized].DATA_TYPE))

\* the unrecognized column was not requested and a requested name is unknown
C21_Witness ==
    /\ Built /\ ~DriverFailed
    /\ UnrecognizedRows = {2}
    /\ catalog[2].COLUMN_NAME \notin requested
    /\ catalog[1].COLUMN_NAME \in requested
    /\ requested \ CatalogNames # {}
    /\ buildResult.err.kind = "UnknownDataType"

\* the only unrecognized column is one nobody asked for, all requested exist
C21_WitnessNotRequested ==
    /\ Built /\ ~DriverFailed
    /\ Len(catalog) = 2 /\ UnrecognizedRows = {1}
    /\ requested = {catalog[2].COLUMN_NAME}
    /\ catalog[1].COLUMN_NAME # catalog[2].COLUMN_NAME
    /\ buildResult.err.kind = "UnknownDataType"

(***************************************************************************)
(* The consumer's test-then-pop on the queue.                              *)
(***************************************************************************)
\* C22: the emptiness test and the pop are two critical sections, and the
\* producer may push between them, but only the consumer's pop ever removes
\* an element: whenever the consumer is about to pop the queue is non-empty,
\* and its pop takes the front element and goes on to dispatch it, never to
\* the branch that finds the queue empty.
C22_PopReturnsElement ==
    /\ [](consPc = "pop" => queue # <<>>)
    /\ [][Len(queue') < Len(queue) => consPc = "pop"]_vars
    /\ [][(consPc = "pop" /\ consPc' # "pop")
              => (/\ consPc' = "dispatch"
                  /\ next_row' = Head(queue)
                  /\ queue' = Tail(queue))]_vars

\* a row popped while the producer is still pushing, with more rows queued
C22_Witness ==
    /\ consPc = "dispatch" /\ next_row.tag = "MoreToCome"
    /\ prodPc = "rows" /\ rowIdx = Len(tableRows)
    /\ Len(queue) = 1 /\ Len(pushed) = 2

(***************************************************************************)
(* Lock acquisition failures in the producer (SpecFault).                  *)
(***************************************************************************)
\* C23: a failed acquisition of the write lock for a decoded row drops that
\* row: nothing is pushed for it, query_data_threaded neither returns nor
\* records an error, and the scan goes on with the next row.  The rows
\* pushed are the rows taken from the result set less the failed pushes, so
\* a scan that returns Ok has pushed fewer rows than it retrieved as soon as
\* one push failed.
C23_FailedPushDropsRow ==
    /\ [](Len(RowsPushed) = rowIdx - lock_failures.push)
    /\ [](execResult = "Ok" =>
              Len(RowsPushed) = Len(tableRows) - lock_failures.push)
    /\ [][lock_failures.push' # lock_failures.push
              => (/\ pushed' = pushed /\ queue' = queue
                  /\ rowIdx' = rowIdx + 1
                  /\ execResult' = execResult
                  /\ prodPc' = "rows" /\ mainPc' = "execute")]_vars

\* a table of two rows exported as one, the run reported as a success
C23_Witness ==
    /\ program = "csvdump" /\ execResult = "Ok"
    /\ Len(tableRows) = 2 /\ lock_failures.push = 1
    /\ consPc = "terminated" /\ Len(RowsWritten) = 1
    /\ mainPc = "done" /\ reported = Some(1)

\* C24: whenever query_data_threaded has returned Ok the last element pushed
\* is EndOfData; and when the write lock for the sentinel could not be
\* acquired the call has not returned at all, neither Ok nor an error: the
\* producer has panicked on the thread that called it (main's), without an
\* EndOfData on the queue.
C24_OkOnlyAfterSentinel ==
    /\ execResult = "Ok" => (pushed # <<>> /\ pushed[Len(pushed)] = EndOfData)
    /\ lock_failures.sentinel > 0 <=> prodPc = "panicked"
    /\ prodPc = "panicked" =>
           (mainPc = "panicked" /\ execResult = "none" /\ ~SentinelPushed)

\* the rows were all pushed and written, the sentinel never was
C24_Witness ==
    /\ prodPc = "panicked" /\ mainPc = "panicked"
    /\ Len(RowsPushed) = 2 /\ Len(RowsWritten) = 2
    /\ queue = <<>> /\ consPc = "sleep"

(***************************************************************************)
(* Repeated calls of execute (SpecAgain).                                  *)
(***************************************************************************)
SentinelsPushed == Cardinality({i \in 1..Len(pushed) : pushed[i].tag = "EndOfData"})

FirstSentinel == Smallest({i \in 1..Len(pushed) : pushed[i].tag = "EndOfData"})

\* C25: a further call of execute starts a new scan on the queue as it is:
\* nothing is removed or reset, every call that returns Ok has appended the
\* rows of its scan and one more EndOfData behind whatever was pushed
\* before, and a consumer that has stopped at the first EndOfData has
\* written the rows before it and leaves everything pushed after it on the
\* queue.
C25_ExecuteAgainAppends ==
    /\ [][extra_calls' # extra_calls
              => (/\ queue' = queue /\ pushed' = pushed
                  /\ prodPc' = "query" /\ mainPc' = "execute")]_vars
    /\ [][/\ Len(pushed') >= Len(pushed)
          /\ SubSeq(pushed', 1, Len(pushed)) = pushed]_vars
    /\ [][(execResult' = "Ok" /\ execResult # "Ok")
              => SentinelsPushed' = SentinelsPushed + 1]_vars
    /\ [](SentinelsPushed <= extra_calls + 1)
    /\ [](execResult = "Ok" =>
              LET N == Len(tableRows)
                  L == Len(pushed)
              IN  /\ L >= N + 1
                  /\ pushed[L] = EndOfData
                  /\ \A k \in 1..N :
                         pushed[L - N - 1 + k] =
                             MoreToCome(DecodeRowThreaded(TableDef.columns, tableRows[k])))
    /\ [](consPc = "terminated" =>
              /\ Len(RowsWritten) = FirstSentinel - 1
              /\ \A k \in 1..Len(RowsWritten) :
                     RowsWritten[k] = RowRecord(pushed[k].values)
              /\ queue = SubSeq(pushed, FirstSentinel + 1, Len(pushed)))

\* two successful scans: the second one's rows and sentinel stay on the
\* queue behind the first EndOfData, the consumer has ended
C25_Witness ==
    /\ extra_calls = 1 /\ execResult = "Ok"
    /\ SentinelsPushed = 2
    /\ FirstSentinel < Len(pushed) - 1
    /\ pushed[Len(pushed) - 1].tag = "MoreToCome"
    /\ consPc = "terminated" /\ mainPc = "done"
    /\ Len(queue) = Len(pushed) - FirstSentinel

(***************************************************************************)
(* Catalogs that list a column name more than once.                        *)
(***************************************************************************)
Largest(S) == CHOOSE x \in S : \A y \in S : y <= x

\* the last catalog row, in result order, that carries the name
LastRowOf(name) == Largest({i \in 1..Len(catalog) : catalog[i].COLUMN_NAME = name})

\* C26: whenever build returned a TableDefinition, however often the catalog
\* listed a name, the columns map has exactly one entry for each requested
\* name, and that entry is the definition made from the last catalog row of
\* that name.
C26_LastDefinitionWins ==
    buildResult.ok =>
        LET m == TableDef.columns
        IN  /\ Len(m) = Cardinality(requested)
            /\ \A name \in requested :
                   \E j \in 1..Len(m) :
                       /\ m[j].key = name
                       /\ m[j].value =
                              [column_name |-> name,
                               nullable |-> catalog[LastRowOf(name)].NULLABLE = "Y",
                               data_type |-> StatedKind(catalog[LastRowOf(name)])]

\* one name, listed as a number and then as a character column
C26_Witness ==
    /\ buildResult.ok
    /\ Len(catalog) = 2
    /\ catalog[1].COLUMN_NAME = catalog[2].COLUMN_NAME
    /\ catalog[1].DATA_TYPE = "NUMBER" /\ catalog[2].DATA_TYPE = "VARCHAR2"
    /\ requested = {catalog[1].COLUMN_NAME}
    /\ Len(TableDef.columns) = 1
    /\ TableDef.columns[1].value.data_type.tag = "VarChar"

=============================================================================
